---- MODULE Spec2Model ----
(***************************************************************************)
(* Model of slicer_tools.py: the preset node registry (ProjectPresets),    *)
(* the inheritance roll-up (all_node_settings) and the sparse difference   *)
(* matrix (DiffMatrix).                                                    *)
(*                                                                         *)
(* Python dictionaries are functions; a dictionary whose iteration order   *)
(* matters is kept together with the sequence of its keys in insertion     *)
(* order.  Python's None is the value None below.  An exception is the     *)
(* name of its class in outcome.status.                                    *)
(***************************************************************************)
EXTENDS Integers, Sequences, FiniteSets, TLC

VARIABLES
    _shared_nodes,   \* ProjectPresets._shared_nodes: class variable, PresetPath -> PresetNode
    _project_nodes,  \* _project_nodes of each constructed instance: PresetPath -> PresetNode
    call,            \* the last call made by the client: operation and arguments
    outcome,         \* what that call returned or raised
    _rows,           \* DiffMatrix._rows: row name -> index
    _row_keys,       \* insertion order of the keys of _rows
    _cols,           \* DiffMatrix._cols: NodeMetadata -> index
    _col_keys,       \* insertion order of the keys of _cols
    _values,         \* DiffMatrix._values: DiffValuePath -> DiffValue
    _value_keys,     \* insertion order of the keys of _values
    _reset_required, \* DiffMatrix._reset_required
    added,           \* history: the add_value calls made so far, in order
    cells,           \* the cells yielded by the last complete traversal
    previous_cells,  \* history: the cells yielded by the traversal before that one
    preset_node,     \* a PresetNode the client constructed itself, None before that
    reads,           \* history: the times the file of that node was opened
    overrides,       \* history: the keys of the override nodes the last
                     \* ThreeMFPresets construction registered, in order
    walk_node,       \* all_node_settings run pass by pass: the key of this_node,
                     \* the node the while loop is at, None outside the loop
    visits           \* history: key -> the passes that loop has made at the node

registry_vars == <<_shared_nodes, _project_nodes>>
matrix_vars == <<_rows, _row_keys, _cols, _col_keys, _values, _value_keys,
                 _reset_required, added, cells, previous_cells>>
node_vars == <<preset_node, reads, overrides>>
walk_vars == <<walk_node, visits>>
vars == <<_shared_nodes, _project_nodes, call, outcome, _rows, _row_keys, _cols,
          _col_keys, _values, _value_keys, _reset_required, added, cells,
          previous_cells, preset_node, reads, overrides, walk_node, visits>>

(***************************************************************************)
(* Bounds.                                                                 *)
(***************************************************************************)
MaxInstances == 1    \* ProjectPresets instances constructed in one process
MaxNodes == 2        \* project nodes added to one instance
MaxAdds == 4         \* add_value calls made on one DiffMatrix
MaxReads == 3        \* times the file of one PresetNode is opened
MaxFilaments == 2    \* filaments of one project
MaxVisits == 2       \* passes the loop of all_node_settings makes at one node

(***************************************************************************)
(* Constants of the module.                                                *)
(***************************************************************************)
None == [None |-> TRUE]
EmptyDict == [k \in {} |-> None]

INHERITS == "inherits"
FROM == "from"
NAME == "name"

PresetType == <<"filament", "machine", "process">>
PresetGroup == {"override", "project", "user", "system"}

NodeMetadata(name, filename, group, preset_type, override_inherits) ==
    [name |-> name, filename |-> filename, group |-> group,
     preset_type |-> preset_type, override_inherits |-> override_inherits]

PresetPath(type, preset_name) == <<type, preset_name>>

Range(s) == {s[i] : i \in DOMAIN s}

\* d1 | d2 of two dictionaries: the rightmost value of a key is kept.
Union(d1, d2) ==
    [k \in (DOMAIN d1) \cup (DOMAIN d2) |-> IF k \in DOMAIN d2 THEN d2[k] ELSE d1[k]]

\* d[k] = v of a dictionary.
Store(d, k, v) == [x \in (DOMAIN d) \cup {k} |-> IF x = k THEN v ELSE d[x]]

(***************************************************************************)
(* The file system.  An application data folder is named by the path given *)
(* to the constructor; its content does not change during a run.           *)
(*   conf         BambuStudio.conf: "missing", "nokey" (no preset_folder)  *)
(*                or the user id it names                                  *)
(*   bbl          system/BBL.json: per preset type the list of entries     *)
(*   system_walk  the json files under system/BBL, in glob order           *)
(*   user_walk    the json files under user/<id>, in glob order            *)
(*   files        the content of each json file                            *)
(* A path below the folder is [tree, preset_type, parent, stem]: system or  *)
(* user tree, the folder of the preset type, the folder the file is in     *)
(* ("" for the folder of the preset type itself) and the file's stem.      *)
(***************************************************************************)
SubPath(tree, preset_type, parent, stem) ==
    [tree |-> tree, preset_type |-> preset_type, parent |-> parent, stem |-> stem]
pathC == SubPath("system", "filament", "", "C")
pathU == SubPath("user", "filament", "base", "U")

NoBbl == [filament |-> <<>>, machine |-> <<>>, process |-> <<>>]

Folders ==
    [empty  |-> [conf |-> "missing", bbl |-> NoBbl, system_walk |-> <<>>,
                 user_walk |-> <<>>, files |-> EmptyDict],
     studio |-> [conf |-> "u1",
                 bbl |-> [NoBbl EXCEPT !.filament =
                            <<[name |-> "C", sub_path |-> pathC]>>],
                 system_walk |-> <<pathC>>,
                 user_walk |-> <<pathU>>,
                 files |-> (pathC :> [k1 |-> "c", k3 |-> "c"]) @@
                           (pathU :> [inherits |-> "C", k2 |-> "u"])],
     dup    |-> [conf |-> "nokey",
                 bbl |-> [NoBbl EXCEPT !.filament =
                            <<[name |-> "C", sub_path |-> pathC],
                              [name |-> "C", sub_path |-> pathC]>>],
                 system_walk |-> <<pathC>>,
                 user_walk |-> <<>>,
                 files |-> (pathC :> [k1 |-> "c", k3 |-> "c"])]]

\* A full path: the application data folder and the path below it.
FullPath(appdata_path, sub) == [root |-> appdata_path, sub |-> sub]
PathName(path) == [stem |-> path.sub.stem, suffix |-> ".json"]    \* Path.name
PathStem(path) == path.sub.stem                                   \* Path.stem
PathParentName(path) == path.sub.parent                           \* Path.parent.name
ReadJson(path) == Folders[path.root].files[path.sub]

(***************************************************************************)
(* PresetNode.                                                             *)
(***************************************************************************)
\* A constructor that wants exactly one of settings and path.
PresetNodeRaisesUnlessOne(settings, path) == (settings = None) = (path = None)

\* PresetNode.__init__ raises ValueError when it is given neither settings nor a path.
PresetNodeRaises(settings, path) == settings = None /\ path = None

PresetNode(metadata, settings, path, user_base_fix) ==
    [metadata |-> IF user_base_fix THEN [metadata EXCEPT !.group = "system"]
                  ELSE metadata,
     path |-> path,
     _settings |-> settings,
     _user_base_fix |-> user_base_fix]

\* PresetNode.settings: the dictionary given at construction, or the parsed
\* content of the file at path.  The file does not change, so the cached
\* dictionary and a fresh read are the same value.
PresetNode_settings(node) ==
    IF node._settings = None
    THEN IF node._user_base_fix
         THEN Store(ReadJson(node.path), FROM, "system")
         ELSE ReadJson(node.path)
    ELSE node._settings

\* The construction of a PresetNode by the client.
PresetNode__init__(metadata, settings, path, user_base_fix) ==
    /\ preset_node = None
    /\ preset_node' = IF PresetNodeRaises(settings, path) THEN None
                      ELSE PresetNode(metadata, settings, path, user_base_fix)
    /\ call' = [op |-> "PresetNode", self |-> 0,
                args |-> <<metadata, settings, path, user_base_fix>>]
    /\ outcome' = [status |-> IF PresetNodeRaises(settings, path)
                              THEN "ValueError" ELSE "ok",
                   value |-> None]
    /\ UNCHANGED <<registry_vars, matrix_vars, reads, overrides, walk_vars>>

\* What open() and json.load() do with the file of a node: give its content
\* ("ok"), give None for a file that holds the text null, or raise.
ReadOutcomes == {"ok", "null", "FileNotFoundError", "JSONDecodeError"}

\* The settings getter that returns what it read and keeps nothing.
PresetNode_settings_uncached(read) ==
    /\ preset_node # None
    /\ preset_node' = preset_node
    /\ call' = [op |-> "settings", self |-> 0, args |-> <<>>]
    /\ overrides' = overrides
    /\ IF preset_node._settings # None
       THEN /\ outcome' = [status |-> "ok", value |-> preset_node._settings]
            /\ reads' = reads
       ELSE /\ preset_node.path # None
            /\ reads < MaxReads
            /\ reads' = reads + 1
            /\ outcome' = IF read = "ok"
                          THEN [status |-> "ok", value |-> ReadJson(preset_node.path)]
                          ELSE IF read = "null"
                          THEN [status |-> "ok", value |-> None]
                          ELSE [status |-> read, value |-> None]
    /\ UNCHANGED <<registry_vars, matrix_vars, walk_vars>>

\* The settings getter of the client's node.  read is what the file system
\* and the parser do if the getter opens the file.
PresetNode_settings_get(read) ==
    /\ preset_node # None
    /\ call' = [op |-> "settings", self |-> 0, args |-> <<>>]
    /\ IF preset_node._settings # None
       THEN /\ outcome' = [status |-> "ok", value |-> preset_node._settings]
            /\ UNCHANGED <<preset_node, reads>>
       ELSE IF preset_node.path = None
       THEN /\ outcome' = [status |-> "KeyError", value |-> None]
            /\ UNCHANGED <<preset_node, reads>>
       ELSE /\ reads < MaxReads
            /\ reads' = reads + 1
            /\ IF read = "ok"
               THEN LET loaded == IF preset_node._user_base_fix
                                  THEN Store(ReadJson(preset_node.path), FROM, "system")
                                  ELSE ReadJson(preset_node.path)
                    IN  /\ preset_node' = [preset_node EXCEPT !._settings = loaded]
                        /\ outcome' = [status |-> "ok", value |-> loaded]
               ELSE IF read = "null"
               THEN \* _settings is assigned None; the fix then subscripts None
                    /\ preset_node' = preset_node
                    /\ outcome' = [status |-> IF preset_node._user_base_fix
                                              THEN "TypeError" ELSE "ok",
                                   value |-> None]
               ELSE /\ preset_node' = preset_node
                    /\ outcome' = [status |-> read, value |-> None]
    /\ UNCHANGED <<registry_vars, matrix_vars, overrides, walk_vars>>

(***************************************************************************)
(* ProjectPresets: population of the shared scope.  The operators take the *)
(* shared scope and return [nodes, error]: the scope they leave behind and *)
(* the exception they raise ("" when they return).                         *)
(***************************************************************************)
\* The entries of BBL.json in the order the loops visit them.
RECURSIVE BblItems(_, _)
BblItems(data, i) ==
    IF i > Len(PresetType) THEN <<>>
    ELSE [j \in DOMAIN data[PresetType[i]] |->
             [preset_type |-> PresetType[i],
              name |-> data[PresetType[i]][j].name,
              sub_path |-> data[PresetType[i]][j].sub_path]]
         \o BblItems(data, i + 1)

RECURSIVE BblLoop(_, _, _)
BblLoop(shared, appdata_path, items) ==
    IF items = <<>> THEN [nodes |-> shared, error |-> ""]
    ELSE LET item == Head(items)
             path == FullPath(appdata_path, item.sub_path)
             preset_key == PresetPath(item.preset_type, item.name)
         IN  IF preset_key \in DOMAIN shared
             THEN [nodes |-> shared, error |-> "ValueError"]
             ELSE BblLoop(
                    Store(shared, preset_key,
                          PresetNode(NodeMetadata(item.name, PathName(path), "system",
                                                  item.preset_type, ""),
                                     None, path, FALSE)),
                    appdata_path, Tail(items))

_system_nodes_from_bbl_json(shared, appdata_path) ==
    BblLoop(shared, appdata_path, BblItems(Folders[appdata_path].bbl, 1))

\* The files of a walk in the order the loops visit them: by preset type, then
\* in glob order.
RECURSIVE WalkItems(_, _)
WalkItems(walk, i) ==
    IF i > Len(PresetType) THEN <<>>
    ELSE SelectSeq(walk, LAMBDA p : p.preset_type = PresetType[i]) \o WalkItems(walk, i + 1)

RECURSIVE WalkLoop(_, _, _)
WalkLoop(shared, json_paths, group) ==
    IF json_paths = <<>> THEN shared
    ELSE LET json_path == Head(json_paths)
             preset_key == PresetPath(json_path.sub.preset_type, PathStem(json_path))
             base_fix == group = "user" /\ PathParentName(json_path) = "base"
         IN  IF preset_key \in DOMAIN shared
             THEN WalkLoop(shared, Tail(json_paths), group)
             ELSE WalkLoop(
                    Store(shared, preset_key,
                          PresetNode(NodeMetadata(PathStem(json_path), PathName(json_path),
                                                  group, json_path.sub.preset_type, ""),
                                     None, json_path, base_fix)),
                    Tail(json_paths), group)

_nodes_from_path_walk(shared, appdata_path, walk, group) ==
    WalkLoop(shared, [i \in DOMAIN WalkItems(walk, 1) |->
                         FullPath(appdata_path, WalkItems(walk, 1)[i])], group)

DummyNode ==
    PresetNode(NodeMetadata("Dummy", [stem |-> "Dummy", suffix |-> ".json"], "system", "process", ""),
               [name |-> "No standard settings found"], None, FALSE)

\* The default folder of the platform; "" where the module knows none.
DefaultStudioPath(platform) ==
    IF platform \in {"win32", "darwin"} THEN "studio" ELSE ""

_load_shared_nodes(shared, appdata_path, bbl_user_id, platform) ==
    LET studio_path == IF appdata_path = "" THEN DefaultStudioPath(platform)
                       ELSE appdata_path
    IN  IF studio_path = "" THEN [nodes |-> shared, error |-> "RuntimeError"]
        ELSE
        LET folder == Folders[studio_path]
            user_id == IF bbl_user_id # "" THEN bbl_user_id ELSE folder.conf
        IN  IF bbl_user_id = "" /\ folder.conf = "missing"
            THEN [nodes |-> shared, error |-> "FileNotFoundError"]
            ELSE IF bbl_user_id = "" /\ folder.conf = "nokey"
            THEN [nodes |-> shared, error |-> "KeyError"]
            ELSE
            LET bbl == _system_nodes_from_bbl_json(shared, studio_path)
            IN  IF bbl.error # "" THEN bbl
                ELSE
                LET system == _nodes_from_path_walk(bbl.nodes, studio_path,
                                                    folder.system_walk, "system")
                    user == _nodes_from_path_walk(
                                system, studio_path,
                                IF user_id = "u1" THEN folder.user_walk ELSE <<>>,
                                "user")
                IN  IF DOMAIN user = {}
                    THEN [nodes |-> Store(user, PresetPath("filament", "dummy"),
                                          DummyNode),
                          error |-> ""]
                    ELSE [nodes |-> user, error |-> ""]

(***************************************************************************)
(* ProjectPresets: construction, add_project_node and _node.               *)
(***************************************************************************)
Instances == 1..MaxInstances

\* A construction that populates the shared scope whatever is in it.
init_shared_always(shared, appdata_path, bbl_user_id, platform) ==
    _load_shared_nodes(shared, appdata_path, bbl_user_id, platform)

\* ProjectPresets.__init__ on the shared scope: the scope it leaves behind and
\* the exception it raises.
init_shared(shared, appdata_path, bbl_user_id, platform) ==
    IF Cardinality(DOMAIN shared) = 0
    THEN _load_shared_nodes(shared, appdata_path, bbl_user_id, platform)
    ELSE [nodes |-> shared, error |-> ""]

\* self is the object under construction; it exists once __init__ returns.
ProjectPresets__init__(self, appdata_path, bbl_user_id, platform) ==
    /\ self \notin DOMAIN _project_nodes
    /\ \A i \in Instances : i < self => i \in DOMAIN _project_nodes
    /\ LET load == init_shared(_shared_nodes, appdata_path, bbl_user_id, platform)
       IN  /\ _shared_nodes' = load.nodes
           /\ _project_nodes' = IF load.error = ""
                                THEN Store(_project_nodes, self, EmptyDict)
                                ELSE _project_nodes
           /\ outcome' = [status |-> IF load.error = "" THEN "ok" ELSE load.error,
                          value |-> None]
    /\ call' = [op |-> "__init__", self |-> self,
                args |-> <<appdata_path, bbl_user_id>>]
    /\ UNCHANGED <<matrix_vars, node_vars, walk_vars>>

\* add_project_node without the test of the project scope: an existing project
\* node is replaced.
project_node_replaced(shared, project, metadata, settings) ==
    LET key == PresetPath(metadata.preset_type, metadata.name)
    IN  IF key \in DOMAIN shared
        THEN [nodes |-> project, error |-> "KeyError"]
        ELSE [nodes |-> Store(project, key, PresetNode(metadata, settings, None, FALSE)),
              error |-> ""]

\* add_project_node without the test of the shared scope.
project_node_added_unshared(shared, project, metadata, settings) ==
    LET key == PresetPath(metadata.preset_type, metadata.name)
    IN  IF key \in DOMAIN project
        THEN [nodes |-> project, error |-> "KeyError"]
        ELSE [nodes |-> Store(project, key, PresetNode(metadata, settings, None, FALSE)),
              error |-> ""]

\* The body of add_project_node on the two scopes: the project scope it leaves
\* behind and the exception it raises.
project_node_added(shared, project, metadata, settings) ==
    LET key == PresetPath(metadata.preset_type, metadata.name)
    IN  IF key \in DOMAIN shared
        THEN [nodes |-> project, error |-> "KeyError"]
        ELSE IF key \in DOMAIN project
        THEN [nodes |-> project, error |-> "KeyError"]
        ELSE [nodes |-> Store(project, key, PresetNode(metadata, settings, None, FALSE)),
              error |-> ""]

add_project_node(self, metadata, settings) ==
    /\ self \in DOMAIN _project_nodes
    /\ LET add == project_node_added(_shared_nodes, _project_nodes[self],
                                     metadata, settings)
       IN  /\ Cardinality(DOMAIN add.nodes) <= MaxNodes
           /\ _project_nodes' = [_project_nodes EXCEPT ![self] = add.nodes]
           /\ outcome' = [status |-> IF add.error = "" THEN "ok" ELSE add.error,
                          value |-> None]
    /\ call' = [op |-> "add_project_node", self |-> self,
                args |-> <<metadata, settings>>]
    /\ UNCHANGED <<_shared_nodes, matrix_vars, node_vars, walk_vars>>

\* ProjectPresets._node: the node, or None where the method raises KeyError.
_node(shared, project, preset_type, name) ==
    LET key == PresetPath(preset_type, name)
    IN  IF key \in DOMAIN shared THEN shared[key]
        ELSE IF key \in DOMAIN project THEN project[key]
        ELSE None

(***************************************************************************)
(* ProjectPresets.all_node_settings.                                       *)
(***************************************************************************)
\* The dictionary built by "for node in reversed(nodes): working |= node".
\* dict(sorted(...)) orders the keys and leaves the mapping as it is.
RECURSIVE Unroll(_)
Unroll(nodes) ==
    IF nodes = <<>> THEN EmptyDict
    ELSE Union(Unroll(Tail(nodes)), Head(nodes))

\* The test for both selectors without it: any pair of selectors is accepted.
SelectorsAccepted(ref_node, ref_group) == FALSE

\* The test at the head of all_node_settings: both selectors are given.
BothSelectors(ref_node, ref_group) == ref_group # "" /\ ref_node # ""

\* The switch test on the reference name only.
IsReferenceByName(this_node, ref_node, ref_group, ref_metadata) ==
    /\ ref_metadata = None
    /\ this_node.metadata.name = ref_node

\* The test that switches the loop to gathering reference nodes.
IsReference(this_node, ref_node, ref_group, ref_metadata) ==
    /\ ref_metadata = None
    /\ \/ (ref_group # "" /\ this_node.metadata.group = ref_group)
       \/ this_node.metadata.name = ref_node

\* One pass of the loop with the append ahead of the switch: the boundary
\* node's settings go where the nodes before it went.
GatheredBeforeSwitch(w, this_node, ref_node, ref_group) ==
    LET switch == IsReference(this_node, ref_node, ref_group, w.ref_metadata)
        own == PresetNode_settings(this_node)
    IN  [settings_nodes |-> IF w.target = "settings_nodes"
                            THEN Append(w.settings_nodes, own)
                            ELSE w.settings_nodes,
         reference_nodes |-> IF w.target = "reference_nodes"
                             THEN Append(w.reference_nodes, own)
                             ELSE w.reference_nodes,
         ref_metadata |-> IF switch THEN this_node.metadata ELSE w.ref_metadata,
         target |-> IF switch THEN "reference_nodes" ELSE w.target]

\* One pass of the loop that switches the target and does not record the
\* metadata of the boundary node.
GatheredNoMetadata(w, this_node, ref_node, ref_group) ==
    LET switch == IsReference(this_node, ref_node, ref_group, w.ref_metadata)
        target == IF switch THEN "reference_nodes" ELSE w.target
        own == PresetNode_settings(this_node)
    IN  [settings_nodes |-> IF target = "settings_nodes"
                            THEN Append(w.settings_nodes, own)
                            ELSE w.settings_nodes,
         reference_nodes |-> IF target = "reference_nodes"
                             THEN Append(w.reference_nodes, own)
                             ELSE w.reference_nodes,
         ref_metadata |-> w.ref_metadata,
         target |-> target]

\* One pass of the loop up to target.append: w holds the local variables
\* settings_nodes, reference_nodes, ref_metadata and target.
Gathered(w, this_node, ref_node, ref_group) ==
    LET switch == IsReference(this_node, ref_node, ref_group, w.ref_metadata)
        ref_metadata == IF switch THEN this_node.metadata ELSE w.ref_metadata
        target == IF switch THEN "reference_nodes" ELSE w.target
        own == PresetNode_settings(this_node)
    IN  [settings_nodes |-> IF target = "settings_nodes"
                            THEN Append(w.settings_nodes, own)
                            ELSE w.settings_nodes,
         reference_nodes |-> IF target = "reference_nodes"
                             THEN Append(w.reference_nodes, own)
                             ELSE w.reference_nodes,
         ref_metadata |-> ref_metadata,
         target |-> target]

\* The name of the parent a node inherits from, "" for none.
Inherits(this_node) ==
    IF INHERITS \notin DOMAIN PresetNode_settings(this_node) THEN ""
    ELSE PresetNode_settings(this_node)[INHERITS]

\* The move to the parent that takes a parent it does not find for no parent.
MovedToParentIfFound(shared, project, preset_type, this_key, seen) ==
    LET this_node == _node(shared, project, preset_type, this_key[2])
        inherits == Inherits(this_node)
        parent_key == PresetPath(preset_type, inherits)
    IN  IF inherits = "" THEN [status |-> "ok", key |-> this_key]
        ELSE IF _node(shared, project, preset_type, inherits) = None
        THEN [status |-> "ok", key |-> this_key]
        ELSE IF parent_key \in seen \cup {this_key}
        THEN [status |-> "NoReturn", key |-> parent_key]
        ELSE [status |-> "next", key |-> parent_key]

\* The end of one pass of the loop, the move to the parent node: the loop
\* ends ("ok"), _node raises ("KeyError"), or the loop goes on at the parent
\* ("next").  seen holds the keys of the nodes the loop has been at.  The
\* registry does not change during the call, so a loop that comes to a node a
\* second time repeats itself and the call never returns ("NoReturn").
MovedToParent(shared, project, preset_type, this_key, seen) ==
    LET this_node == _node(shared, project, preset_type, this_key[2])
        inherits == Inherits(this_node)
        parent_key == PresetPath(preset_type, inherits)
    IN  IF inherits = "" THEN [status |-> "ok", key |-> this_key]
        ELSE IF _node(shared, project, preset_type, inherits) = None
        THEN [status |-> "KeyError", key |-> parent_key]
        ELSE IF parent_key \in seen \cup {this_key}
        THEN [status |-> "NoReturn", key |-> parent_key]
        ELSE [status |-> "next", key |-> parent_key]

\* The while loop from the node at this_key on.
RECURSIVE WalkTree(_, _, _, _, _, _, _, _)
WalkTree(shared, project, preset_type, this_key, ref_node, ref_group, w, seen) ==
    LET this_node == _node(shared, project, preset_type, this_key[2])
        w1 == Gathered(w, this_node, ref_node, ref_group)
        move == MovedToParent(shared, project, preset_type, this_key, seen)
    IN  IF move.status = "next"
        THEN WalkTree(shared, project, preset_type, move.key,
                      ref_node, ref_group, w1, seen \cup {this_key})
        ELSE [status |-> move.status, w |-> w1]

AllNodeSettings(metadata, ref_metadata, source_subtree, reference_subtree) ==
    [metadata |-> metadata, ref_metadata |-> ref_metadata,
     source_subtree |-> source_subtree, reference_subtree |-> reference_subtree]

\* The call on the two scopes: [status, value], value being the AllNodeSettings
\* returned, or None when the call raises or does not return.
node_settings_rolled_up(shared, project, preset_type, node_name, ref_node, ref_group) ==
    IF BothSelectors(ref_node, ref_group)
    THEN [status |-> "ValueError", value |-> None]
    ELSE IF _node(shared, project, preset_type, node_name) = None
    THEN [status |-> "KeyError", value |-> None]
    ELSE
    LET this_node == _node(shared, project, preset_type, node_name)
        walk == WalkTree(shared, project, preset_type,
                         PresetPath(preset_type, node_name), ref_node, ref_group,
                         [settings_nodes |-> <<>>, reference_nodes |-> <<>>,
                          ref_metadata |-> None, target |-> "settings_nodes"],
                         {})
        settings == Unroll(walk.w.settings_nodes)
        reference == Unroll(walk.w.reference_nodes)
    IN  IF walk.status # "ok" THEN [status |-> walk.status, value |-> None]
        ELSE IF Cardinality(DOMAIN reference) # 0 /\ walk.w.ref_metadata = None
        THEN [status |-> "ValueError: no reference metadata", value |-> None]
        ELSE [status |-> "ok",
              value |-> AllNodeSettings(this_node.metadata, walk.w.ref_metadata,
                                        settings, reference)]

all_node_settings(self, preset_type, node_name, ref_node, ref_group) ==
    /\ self \in DOMAIN _project_nodes
    /\ outcome' = node_settings_rolled_up(_shared_nodes, _project_nodes[self],
                                          preset_type, node_name, ref_node, ref_group)
    /\ call' = [op |-> "all_node_settings", self |-> self,
                args |-> <<preset_type, node_name, ref_node, ref_group>>]
    /\ UNCHANGED <<registry_vars, matrix_vars, node_vars, walk_vars>>

\* all_node_settings pass by pass, for a call without reference selector.
\* The call up to the while loop: _node raises KeyError, or the loop starts
\* at the node asked for.
all_node_settings_enter(self, preset_type, node_name) ==
    /\ walk_node = None
    /\ self \in DOMAIN _project_nodes
    /\ call' = [op |-> "all_node_settings", self |-> self,
                args |-> <<preset_type, node_name, "", "">>]
    /\ visits' = EmptyDict
    /\ IF _node(_shared_nodes, _project_nodes[self], preset_type, node_name) = None
       THEN /\ walk_node' = None
            /\ outcome' = [status |-> "KeyError", value |-> None]
       ELSE /\ walk_node' = PresetPath(preset_type, node_name)
            /\ outcome' = [status |-> "running", value |-> None]
    /\ UNCHANGED <<registry_vars, matrix_vars, node_vars>>

\* The passes the loop has made at a node.
Visits(key) == IF key \in DOMAIN visits THEN visits[key] ELSE 0

\* One pass of the while loop, this_node being the node at walk_node, and,
\* where the pass is the last, the rest of the call.  The lists the passes gather are those of
\* node_settings_rolled_up, which gives the value a call that returns has.
all_node_settings_pass ==
    /\ walk_node # None
    /\ Visits(walk_node) < MaxVisits
    /\ visits' = Store(visits, walk_node, Visits(walk_node) + 1)
    /\ LET self == call.self
           preset_type == call.args[1]
           node == _node(_shared_nodes, _project_nodes[self], preset_type, walk_node[2])
           inherits == Inherits(node)
       IN  IF inherits = ""
           THEN /\ walk_node' = None
                /\ outcome' = [status |-> "ok",
                               value |-> node_settings_rolled_up(
                                             _shared_nodes, _project_nodes[self],
                                             preset_type, call.args[2], "", "").value]
           ELSE IF _node(_shared_nodes, _project_nodes[self], preset_type, inherits) = None
           THEN /\ walk_node' = None
                /\ outcome' = [status |-> "KeyError", value |-> None]
           ELSE /\ walk_node' = PresetPath(preset_type, inherits)
                /\ outcome' = outcome
    /\ UNCHANGED <<registry_vars, call, matrix_vars, node_vars>>

(***************************************************************************)
(* ThreeMFPresets.  The code tests the type of the values of the project   *)
(* configuration, so a string value is [str |-> s] and a list value is     *)
(* [list |-> <<...>>].  A difference descriptor is the sequence of the     *)
(* names and the ";" separators of its string.                             *)
(***************************************************************************)
DIFFS_TO_SYSTEM == "different_settings_to_system"
INHERITS_GROUP == "inherits_group"
VERSION == "version"
SETTINGS == "_settings"
PROJECT_CONFIG_NAME == [prefix |-> "project", rest |-> SETTINGS]
EXCLUDE_CONFIGS == {[prefix |-> "model", rest |-> SETTINGS],
                    [prefix |-> "slice", rest |-> "_info"]}

JStr(s) == [str |-> s]
JList(l) == [list |-> l]
IsList(v) == "list" \in DOMAIN v

\* diff.split(";")
RECURSIVE Split(_)
Split(diff) ==
    IF diff = <<>> THEN <<"">>
    ELSE IF Head(diff) = ";" THEN <<"">> \o Split(Tail(diff))
    ELSE IF Tail(diff) = <<>> THEN <<Head(diff)>>
    ELSE <<Head(diff)>> \o Split(Tail(Tail(diff)))

\* The loop over the keys of a descriptor that takes the element at
\* value_idx of any list, whatever its length.
RECURSIVE DiffKeysLoopUnchecked(_, _, _, _, _, _)
DiffKeysLoopUnchecked(project_config, diff_keys, value_idx, settings, metadata, filament_count) ==
    IF diff_keys = <<>> THEN [settings |-> settings, error |-> "", value |-> None]
    ELSE
    LET key == Head(diff_keys)
    IN  IF key \notin DOMAIN project_config
        THEN [settings |-> settings, error |-> "KeyError", value |-> None]
        ELSE
        LET values == project_config[key]
        IN  IF metadata.preset_type = "filament"
            THEN IF key = "filament_notes"
                 THEN DiffKeysLoopUnchecked(project_config, Tail(diff_keys), value_idx,
                                            settings, metadata, filament_count)
                 ELSE IF ~IsList(values)
                 THEN [settings |-> settings, error |-> "TypeError", value |-> None]
                 ELSE IF value_idx + 1 > Len(values.list)
                 THEN [settings |-> settings, error |-> "IndexError", value |-> None]
                 ELSE DiffKeysLoopUnchecked(
                          project_config, Tail(diff_keys), value_idx,
                          Store(settings, key, JStr(values.list[value_idx + 1])),
                          metadata, filament_count)
            ELSE DiffKeysLoopUnchecked(project_config, Tail(diff_keys), value_idx,
                                       Store(settings, key, values), metadata,
                                       filament_count)

\* The loop of _differences_to_settings over the keys of a descriptor: the
\* settings it leaves behind, the exception it raises and, for the error of
\* a list of the wrong length, what the message names.
RECURSIVE DiffKeysLoop(_, _, _, _, _, _)
DiffKeysLoop(project_config, diff_keys, value_idx, settings, metadata, filament_count) ==
    IF diff_keys = <<>> THEN [settings |-> settings, error |-> "", value |-> None]
    ELSE
    LET key == Head(diff_keys)
    IN  IF key \notin DOMAIN project_config
        THEN [settings |-> settings, error |-> "KeyError", value |-> None]
        ELSE
        LET values == project_config[key]
        IN  IF metadata.preset_type = "filament"
            THEN IF key = "filament_notes"
                 THEN DiffKeysLoop(project_config, Tail(diff_keys), value_idx,
                                   settings, metadata, filament_count)
                 ELSE IF ~IsList(values)
                 THEN [settings |-> settings, error |-> "TypeError", value |-> None]
                 ELSE IF Len(values.list) # filament_count
                 THEN [settings |-> settings, error |-> "IndexError",
                       value |-> [node |-> metadata.name, key |-> key,
                                  expected |-> filament_count,
                                  actual |-> Len(values.list)]]
                 ELSE DiffKeysLoop(project_config, Tail(diff_keys), value_idx,
                                   Store(settings, key, JStr(values.list[value_idx + 1])),
                                   metadata, filament_count)
            ELSE \* machine and process: the value is taken as it is
                 DiffKeysLoop(project_config, Tail(diff_keys), value_idx,
                              Store(settings, key, values), metadata, filament_count)

_differences_to_settings(project_config, value_idx, diff, settings, metadata, filament_count) ==
    LET diff_keys == Split(diff)
    IN  IF diff_keys[1] = ""
        THEN [settings |-> settings, error |-> "", value |-> None]
        ELSE DiffKeysLoop(project_config, diff_keys, value_idx, settings, metadata,
                          filament_count)

\* The preset slot of a position of the descriptor list, with the machine
\* taken to be the last position of the list.
SlotMachineLast(project_config, diff_idx, filament_idx) ==
    LET filament_ids == project_config["filament_settings_id"].list
        last == Len(project_config[DIFFS_TO_SYSTEM].list) - 1
    IN  IF diff_idx = 0
        THEN [error |-> "", name |-> project_config["print_settings_id"].str,
              value_idx |-> 0, preset_type |-> "process", filament_idx |-> filament_idx]
        ELSE IF diff_idx = last
        THEN [error |-> "", name |-> project_config["printer_settings_id"].str,
              value_idx |-> 0, preset_type |-> "machine", filament_idx |-> filament_idx]
        ELSE IF filament_idx + 2 > Len(filament_ids)
        THEN [error |-> "IndexError", name |-> "", value_idx |-> 0,
              preset_type |-> "filament", filament_idx |-> filament_idx + 1]
        ELSE [error |-> "", name |-> filament_ids[filament_idx + 2],
              value_idx |-> filament_idx + 1, preset_type |-> "filament",
              filament_idx |-> filament_idx + 1]

\* The preset slot of a position of the descriptor list: the declared name,
\* the index into the value lists, the preset type and the filament index
\* after the position.
Slot(project_config, diff_idx, filament_idx) ==
    LET filament_ids == project_config["filament_settings_id"].list
        filament_count == Len(filament_ids)
    IN  IF diff_idx = 0
        THEN [error |-> "", name |-> project_config["print_settings_id"].str,
              value_idx |-> 0, preset_type |-> "process", filament_idx |-> filament_idx]
        ELSE IF diff_idx = filament_count + 1
        THEN [error |-> "", name |-> project_config["printer_settings_id"].str,
              value_idx |-> 0, preset_type |-> "machine", filament_idx |-> filament_idx]
        ELSE IF filament_idx + 2 > Len(filament_ids)
        THEN [error |-> "IndexError", name |-> "", value_idx |-> 0,
              preset_type |-> "filament", filament_idx |-> filament_idx + 1]
        ELSE [error |-> "", name |-> filament_ids[filament_idx + 2],
              value_idx |-> filament_idx + 1, preset_type |-> "filament",
              filament_idx |-> filament_idx + 1]

\* The settings an override starts with: the values the project configuration
\* does not give for it.
BaseSettings(project_config, metadata, inherits) ==
    [name |-> JStr(metadata.name), inherits |-> JStr(inherits),
     from |-> project_config[FROM], version |-> project_config[VERSION]]

\* The body of the loop of _process_project_settings at position diff_idx.
\* before is what the positions before it left behind: the project scope,
\* the keys registered, the filament index.  suffixes are the four letters
\* random.sample draws at each position.
SlotStep(shared, before, project_config, filename, suffixes, diff_idx) ==
    LET diffs == project_config[DIFFS_TO_SYSTEM].list
        filament_count == Len(project_config["filament_settings_id"].list)
        slot == Slot(project_config, diff_idx, before.filament_idx)
        raised(error, value) == [before EXCEPT !.error = error, !.value = value]
    IN  IF slot.error # "" THEN raised(slot.error, None)
        ELSE
        LET name == slot.name
            metadata == NodeMetadata(name \o "_" \o suffixes[diff_idx + 1], filename,
                                     "override", slot.preset_type, name)
            inherits_group == project_config[INHERITS_GROUP].list
        IN  IF diff_idx + 1 > Len(inherits_group) THEN raised("IndexError", None)
            ELSE
            LET inherits == IF inherits_group[diff_idx + 1] = "" THEN name
                            ELSE inherits_group[diff_idx + 1]
                differences == _differences_to_settings(
                                   project_config, slot.value_idx, diffs[diff_idx + 1],
                                   BaseSettings(project_config, metadata, inherits),
                                   metadata, filament_count)
            IN  IF differences.error # ""
                THEN raised(differences.error, differences.value)
                ELSE
                LET add == project_node_added(shared, before.nodes, metadata,
                                              differences.settings)
                IN  IF add.error # "" THEN raised(add.error, None)
                    ELSE [nodes |-> add.nodes,
                          overrides |-> Append(before.overrides,
                                               PresetPath(metadata.preset_type,
                                                          metadata.name)),
                          filament_idx |-> slot.filament_idx,
                          error |-> "", value |-> None]

\* The loop of _process_project_settings over the first count positions of
\* the descriptor list; it ends at the first position that raises.
RECURSIVE SlotsLoop(_, _, _, _, _, _)
SlotsLoop(shared, project, project_config, filename, suffixes, count) ==
    IF count = 0
    THEN [nodes |-> project, overrides |-> <<>>, filament_idx |-> -1,
          error |-> "", value |-> None]
    ELSE LET before == SlotsLoop(shared, project, project_config, filename, suffixes,
                                 count - 1)
         IN  IF before.error # "" THEN before
             ELSE SlotStep(shared, before, project_config, filename, suffixes, count - 1)

_process_project_settings(shared, project, project_config, filename, suffixes) ==
    SlotsLoop(shared, project, project_config, filename, suffixes,
              Len(project_config[DIFFS_TO_SYSTEM].list))

\* The loop of ThreeMFPresets.__init__ over the .config members of the
\* archive.  A member is its stem, [prefix, rest], and its parsed content.
RECURSIVE ArchiveLoop(_, _, _, _, _, _)
ArchiveLoop(shared, project, archive, filename, suffixes, registered) ==
    IF archive = <<>>
    THEN [nodes |-> project, overrides |-> registered, error |-> "", value |-> None]
    ELSE
    LET zip_path == Head(archive)
        settings == zip_path.settings
    IN  IF zip_path.stem \in EXCLUDE_CONFIGS
        THEN ArchiveLoop(shared, project, Tail(archive), filename, suffixes, registered)
        ELSE IF zip_path.stem = PROJECT_CONFIG_NAME
        THEN LET done == _process_project_settings(shared, project, settings, filename,
                                                   suffixes)
             IN  IF done.error # ""
                 THEN [nodes |-> done.nodes, overrides |-> done.overrides,
                       error |-> done.error, value |-> done.value]
                 ELSE ArchiveLoop(shared, done.nodes, Tail(archive), filename, suffixes,
                                  done.overrides)
        ELSE IF zip_path.stem.prefix \in Range(PresetType)
                /\ zip_path.stem.rest \in {SETTINGS, SETTINGS \o "_1"}
        THEN LET add == project_node_added(
                            shared, project,
                            NodeMetadata(settings[NAME].str, filename, "project",
                                         zip_path.stem.prefix, ""),
                            settings)
             IN  IF add.error # ""
                 THEN [nodes |-> project, overrides |-> registered,
                       error |-> add.error, value |-> None]
                 ELSE ArchiveLoop(shared, add.nodes, Tail(archive), filename, suffixes,
                                  registered)
        ELSE ArchiveLoop(shared, project, Tail(archive), filename, suffixes, registered)

\* ThreeMFPresets.__init__: self.presets is the ProjectPresets instance self.
\* The sets of one element give load and done one value each.
ThreeMFPresets__init__(self, project_file, appdata_path, user_id, platform, archive, suffixes) ==
    /\ self \notin DOMAIN _project_nodes
    /\ \A i \in Instances : i < self => i \in DOMAIN _project_nodes
    /\ \E load \in {init_shared(_shared_nodes, appdata_path, user_id, platform)} :
       \E done \in {ArchiveLoop(load.nodes, EmptyDict, archive, project_file, suffixes,
                                <<>>)} :
           /\ _shared_nodes' = load.nodes
           /\ IF load.error # ""
              THEN /\ _project_nodes' = _project_nodes
                   /\ overrides' = <<>>
                   /\ outcome' = [status |-> load.error, value |-> None]
              ELSE /\ _project_nodes' = Store(_project_nodes, self, done.nodes)
                   /\ overrides' = done.overrides
                   /\ outcome' = [status |-> IF done.error = "" THEN "ok"
                                             ELSE done.error,
                                  value |-> done.value]
    /\ call' = [op |-> "ThreeMFPresets", self |-> self, args |-> <<archive, suffixes>>]
    /\ UNCHANGED <<matrix_vars, preset_node, reads, walk_vars>>

(***************************************************************************)
(* DiffMatrix.                                                             *)
(***************************************************************************)
_header_count == 3

DiffValue(value, type) == [value |-> value, type |-> type]
DiffValuePath(row_name, metadata) == <<row_name, metadata>>
CellInfo(row, column, value, format) ==
    [row |-> row, column |-> column, value |-> value, format |-> format]

\* Appending a key to the key order of a dictionary: a key already present
\* keeps its place.
KeyAdded(keys, k) == IF k \in Range(keys) THEN keys ELSE Append(keys, k)

\* The row names of the model in the order of Python's string comparison.
RowNameOrder == <<"K", "a", "k">>
Position(seq, x) == CHOOSE i \in DOMAIN seq : seq[i] = x
StrLess(a, b) == Position(RowNameOrder, a) < Position(RowNameOrder, b)

\* add_value that leaves the value of a cell that is already there.
add_value_keeps_first(row_name, column_id, value, value_type) ==
    /\ Len(added) < MaxAdds
    /\ _reset_required' = TRUE
    /\ _rows' = Store(_rows, row_name, -1)
    /\ _row_keys' = KeyAdded(_row_keys, row_name)
    /\ _cols' = Store(_cols, column_id, -1)
    /\ _col_keys' = KeyAdded(_col_keys, column_id)
    /\ _values' = IF DiffValuePath(row_name, column_id) \in DOMAIN _values
                  THEN _values
                  ELSE Store(_values, DiffValuePath(row_name, column_id),
                             DiffValue(value, value_type))
    /\ _value_keys' = KeyAdded(_value_keys, DiffValuePath(row_name, column_id))
    /\ added' = Append(added, <<row_name, column_id, value, value_type>>)
    /\ call' = [op |-> "add_value", self |-> 0,
                args |-> <<row_name, column_id, value, value_type>>]
    /\ outcome' = [status |-> "ok", value |-> None]
    /\ UNCHANGED <<registry_vars, cells, previous_cells, node_vars, walk_vars>>

add_value(row_name, column_id, value, value_type) ==
    /\ Len(added) < MaxAdds
    /\ _reset_required' = TRUE
    /\ _rows' = Store(_rows, row_name, -1)
    /\ _row_keys' = KeyAdded(_row_keys, row_name)
    /\ _cols' = Store(_cols, column_id, -1)
    /\ _col_keys' = KeyAdded(_col_keys, column_id)
    /\ _values' = Store(_values, DiffValuePath(row_name, column_id),
                        DiffValue(value, value_type))
    /\ _value_keys' = KeyAdded(_value_keys, DiffValuePath(row_name, column_id))
    /\ added' = Append(added, <<row_name, column_id, value, value_type>>)
    /\ call' = [op |-> "add_value", self |-> 0,
                args |-> <<row_name, column_id, value, value_type>>]
    /\ outcome' = [status |-> "ok", value |-> None]
    /\ UNCHANGED <<registry_vars, cells, previous_cells, node_vars, walk_vars>>

\* _reset_lookups, rows: enumerate(sorted(keys)).
RowsReset(rows) ==
    [k \in DOMAIN rows |-> Cardinality({j \in DOMAIN rows : StrLess(j, k)})]

\* _reset_lookups, columns: one pass over the columns for each group in turn.
GroupOrder == <<"system", "override", "project", "user">>

\* Columns numbered in the order of their insertion, whatever their group.
ColsResetInsertionOrder(cols, col_keys) ==
    [k \in DOMAIN cols |-> Position(col_keys, k) - 1]

ColsReset(cols, col_keys) ==
    [k \in DOMAIN cols |->
        Cardinality({j \in DOMAIN col_keys :
            \/ Position(GroupOrder, col_keys[j].group) < Position(GroupOrder, k.group)
            \/ /\ col_keys[j].group = k.group
               /\ j < Position(col_keys, k)})]

\* The cells table_cells yields, in order, from the lookups it reads.
HeaderNameCells ==
    <<CellInfo(0, 0, "Group", "Normal"), CellInfo(1, 0, "Filename", "Normal"),
      CellInfo(2, 0, "Preset", "Normal")>>

RowNameCells(rows, row_keys) ==
    [i \in DOMAIN row_keys |->
        CellInfo(rows[row_keys[i]] + _header_count, 0, row_keys[i], "Normal")]

RECURSIVE ColumnHeaderCells(_, _)
ColumnHeaderCells(cols, col_keys) ==
    IF col_keys = <<>> THEN <<>>
    ELSE LET metadata == Head(col_keys)
             col_offset == cols[metadata]
         IN  <<CellInfo(0, col_offset + 1, metadata.group, "Normal"),
               CellInfo(1, col_offset + 1, metadata.filename, "Normal"),
               CellInfo(2, col_offset + 1, metadata.name, "Normal")>>
             \o ColumnHeaderCells(cols, Tail(col_keys))

ValueCells(rows, cols, values, value_keys) ==
    [i \in DOMAIN value_keys |->
        CellInfo(rows[value_keys[i][1]] + _header_count,
                 cols[value_keys[i][2]] + 1,
                 values[value_keys[i]].value,
                 values[value_keys[i]].type)]

\* The cells with the column headers before the row names.
YieldedHeadersFirst(rows, cols) ==
    HeaderNameCells \o ColumnHeaderCells(cols, _col_keys)
    \o RowNameCells(rows, _row_keys)
    \o ValueCells(rows, cols, _values, _value_keys)

\* The yields of table_cells in the order they are made.
Yielded(rows, cols) ==
    HeaderNameCells \o RowNameCells(rows, _row_keys)
    \o ColumnHeaderCells(cols, _col_keys)
    \o ValueCells(rows, cols, _values, _value_keys)

\* A traversal that computes the lookups the first time only.
table_cells_stale ==
    LET rows == IF cells = <<>> THEN RowsReset(_rows) ELSE _rows
        cols == IF cells = <<>> THEN ColsReset(_cols, _col_keys) ELSE _cols
    IN  /\ previous_cells' = cells
        /\ _rows' = rows
        /\ _cols' = cols
        /\ cells' = Yielded(rows, cols)
        /\ call' = [op |-> "table_cells", self |-> 0, args |-> <<>>]
        /\ outcome' = [status |-> "ok", value |-> None]
        /\ UNCHANGED <<registry_vars, _row_keys, _col_keys, _values, _value_keys,
                       _reset_required, added, node_vars, walk_vars>>

\* A complete traversal: the generator is run to its end.
table_cells ==
    LET rows == IF _reset_required THEN RowsReset(_rows) ELSE _rows
        cols == IF _reset_required THEN ColsReset(_cols, _col_keys) ELSE _cols
    IN  /\ previous_cells' = cells
        /\ _rows' = rows
        /\ _cols' = cols
        /\ cells' = Yielded(rows, cols)
        /\ call' = [op |-> "table_cells", self |-> 0, args |-> <<>>]
        /\ outcome' = [status |-> "ok", value |-> None]
        /\ UNCHANGED <<registry_vars, _row_keys, _col_keys, _values, _value_keys,
                       _reset_required, added, node_vars, walk_vars>>

(***************************************************************************)
(* The inputs of the model.                                                *)
(***************************************************************************)
\* Construction.
AppdataPaths == {"", "empty", "studio", "dup"}    \* "": no path given
UserIds == {"", "u1"}
Platforms == {"win32", "linux"}

\* The registry: project nodes that do and do not collide with shared nodes.
ProjectFile == [stem |-> "p", suffix |-> ".3mf"]
RegistryMetadata ==
    {NodeMetadata(n, ProjectFile, "project", t, "") : n \in {"A", "C"},
                                                   t \in {"filament", "process"}}
RegistrySettings == {EmptyDict, [k1 |-> "x"]}

\* The resolver: project nodes that form chains among themselves and with
\* the shared nodes C and U, that name a missing parent, or themselves.
ProjectMetadata ==
    {NodeMetadata("A", ProjectFile, "project", "filament", ""),
     NodeMetadata("B", ProjectFile, "override", "filament", ""),
     NodeMetadata("", ProjectFile, "project", "filament", "")}
Bodies == {EmptyDict, [k1 |-> "x"]}
Parents == {"", "B", "C"}
ProjectSettings ==
    Bodies \cup {Store(b, INHERITS, p) : b \in Bodies, p \in Parents}

NodeNames == {"", "A", "B", "C"}
RefNodes == {"", "B", "C"}
RefGroups == {"", "system", "override"}     \* "": no group given

RowNames == {"k", "a"}
mSystem == NodeMetadata("C", [stem |-> "C", suffix |-> ".json"], "system", "filament", "")
mOverride == NodeMetadata("B_wxyz", ProjectFile, "override", "filament", "B")
mProject == NodeMetadata("B", ProjectFile, "project", "filament", "")
mUser == NodeMetadata("U", [stem |-> "U", suffix |-> ".json"], "user", "filament", "")
mSystem2 == NodeMetadata("D", [stem |-> "D", suffix |-> ".json"], "system", "filament", "")
Columns == {mUser, mSystem, mOverride, mProject, mSystem2}
DiffValues == {DiffValue("x", "DIFFERENCE"), DiffValue("y", "OVERRIDE")}
\* The add_value calls of the model: row k in every column, row a in one
\* column, and a second value for one cell.
MatrixInputs ==
    {<<"k", c, DiffValue("x", "DIFFERENCE")>> : c \in Columns}
    \cup {<<"a", mSystem, DiffValue("x", "DIFFERENCE")>>}
    \cup {<<"k", mUser, DiffValue("y", "OVERRIDE")>>}

\* The arguments a PresetNode is constructed with: settings and path given
\* or not.
NodeSettings == {None, EmptyDict, [k1 |-> "x"]}
NodePaths == {None, FullPath("studio", pathC), FullPath("studio", pathU)}

\* The project configurations: the filaments of the project, a descriptor
\* list that is one short, exact or one long, with one kind of descriptor at
\* some of its positions and the empty descriptor at the others, the
\* inherits_group entries, and the value of the key k1.
DeclaredNames == {"A", "B"}
FilamentIds ==
    {ids \in UNION {[1..n -> DeclaredNames] : n \in 0..MaxFilaments} :
        ids # <<>> => ids[1] = "A"}
Descriptors == {<<"k1">>, <<"name">>, <<"filament_notes", ";", "k1">>}
DescriptorLists(len) ==
    {[i \in 1..len |-> IF i \in at THEN d ELSE <<>>] :
        at \in SUBSET (1..len), d \in Descriptors}
InheritsGroups(len) ==
    {[i \in 1..len |-> IF i % 2 = r THEN "" ELSE "S"] : r \in {0, 1}}
Items == <<"v1", "v2", "v3", "v4", "v5", "v6">>
K1Values(filament_count) ==
    {JStr("v")} \cup
    {JList(SubSeq(Items, 1, n)) :
        n \in {filament_count - 1, filament_count, filament_count + 1} \cap Nat}
ProjectConfig(filament_ids, diffs, inherits_group, k1) ==
    [filament_settings_id |-> JList(filament_ids),
     print_settings_id |-> JStr("P"),
     printer_settings_id |-> JStr("M"),
     different_settings_to_system |-> JList(diffs),
     inherits_group |-> JList(inherits_group),
     from |-> JStr("project"),
     version |-> JStr("1"),
     name |-> JStr("project_settings"),
     filament_notes |-> JList(<<"note">>),
     k1 |-> k1]
\* The members that come before the project configuration in the archive:
\* none, one that is not read, or the preset of a filament.
ProjectMember(project_config) == [stem |-> PROJECT_CONFIG_NAME, settings |-> project_config]
PresetMember ==
    [stem |-> [prefix |-> "filament", rest |-> SETTINGS \o "_1"],
     settings |-> [name |-> JStr("A"), inherits |-> JStr("C")]]
InfoMember == [stem |-> [prefix |-> "slice", rest |-> "_info"], settings |-> EmptyDict]
Leads(diffs) ==
    IF Len(diffs) = 3 /\ \A i \in 1..3 : diffs[i] = <<>>
    THEN {<<>>, <<PresetMember>>, <<InfoMember>>}
    ELSE {<<>>}

\* What random.sample draws at the positions of a descriptor list: the
\* same four letters at every position, or different letters at each.
SuffixNames == <<"abcd", "efgh", "ijkl", "mnop", "qrst", "uvwx", "yzab">>
SuffixDraws == {[i \in DOMAIN SuffixNames |-> "wxyz"], SuffixNames}

(***************************************************************************)
(* Specifications.                                                         *)
(***************************************************************************)
Init ==
    /\ _shared_nodes = EmptyDict
    /\ _project_nodes = EmptyDict
    /\ call = [op |-> "", self |-> 0, args |-> <<>>]
    /\ outcome = [status |-> "", value |-> None]
    /\ _rows = EmptyDict
    /\ _row_keys = <<>>
    /\ _cols = EmptyDict
    /\ _col_keys = <<>>
    /\ _values = EmptyDict
    /\ _value_keys = <<>>
    /\ _reset_required = TRUE
    /\ added = <<>>
    /\ cells = <<>>
    /\ previous_cells = <<>>
    /\ preset_node = None
    /\ reads = 0
    /\ overrides = <<>>
    /\ walk_node = None
    /\ visits = EmptyDict

\* The registry: construction of instances and add_project_node.
Next ==
    \/ \E self \in Instances, appdata_path \in AppdataPaths, bbl_user_id \in UserIds,
          platform \in Platforms :
          ProjectPresets__init__(self, appdata_path, bbl_user_id, platform)
    \/ \E self \in Instances, metadata \in RegistryMetadata,
          settings \in RegistrySettings :
          add_project_node(self, metadata, settings)

Spec == Init /\ [][Next]_vars

\* The resolver: one instance, its project nodes and all_node_settings.
ResolveNext ==
    \/ \E appdata_path \in {"empty", "studio"} :
          ProjectPresets__init__(1, appdata_path, "u1", "linux")
    \/ \E metadata \in ProjectMetadata, settings \in ProjectSettings :
          add_project_node(1, metadata, settings)
    \/ \E node_name \in NodeNames, ref_node \in RefNodes, ref_group \in RefGroups :
          all_node_settings(1, "filament", node_name, ref_node, ref_group)

ResolveSpec == Init /\ [][ResolveNext]_vars

\* The resolver with the loop of all_node_settings run pass by pass.  The
\* client makes no other call before the call returns or raises.
WalkNext ==
    \/ /\ walk_node = None
       /\ \E appdata_path \in {"empty", "studio"} :
             ProjectPresets__init__(1, appdata_path, "u1", "linux")
    \/ /\ walk_node = None
       /\ \E metadata \in ProjectMetadata, settings \in ProjectSettings :
             add_project_node(1, metadata, settings)
    \/ \E node_name \in NodeNames : all_node_settings_enter(1, "filament", node_name)
    \/ all_node_settings_pass

WalkSpec == Init /\ [][WalkNext]_vars

\* A PresetNode of the client and its settings getter.
NodeNext ==
    \/ \E metadata \in {mSystem, mUser}, settings \in NodeSettings, path \in NodePaths,
          user_base_fix \in BOOLEAN :
          PresetNode__init__(metadata, settings, path, user_base_fix)
    \/ \E read \in ReadOutcomes : PresetNode_settings_get(read)

NodeSpec == Init /\ [][NodeNext]_vars

\* The presets of a project file.
OverrideNext ==
    /\ 1 \notin DOMAIN _project_nodes
    /\ \E ids \in FilamentIds, len \in 1..(MaxFilaments + 3), suffixes \in SuffixDraws :
        \E diffs \in DescriptorLists(len), inherits_group \in InheritsGroups(len),
           k1 \in K1Values(Len(ids)) :
            \E archive \in
                  {lead \o <<ProjectMember(ProjectConfig(ids, diffs, inherits_group, k1))>> :
                      lead \in Leads(diffs)} :
                ThreeMFPresets__init__(1, ProjectFile, "studio", "u1", "linux", archive,
                                       suffixes)

OverrideSpec == Init /\ [][OverrideNext]_vars

\* The difference matrix.
MatrixNext ==
    \/ \E in \in MatrixInputs : add_value(in[1], in[2], in[3].value, in[3].type)
    \/ table_cells

MatrixSpec == Init /\ [][MatrixNext]_vars

(***************************************************************************)
(* Properties of the registry, checked under Spec.                         *)
(***************************************************************************)
\* The key add_project_node computes from the metadata it is given.
CallKey(c) == PresetPath(c.args[1].preset_type, c.args[1].name)

\* C1: add_project_node called with a (preset type, name) key that is present
\* in the shared scope or in the project scope of the instance raises KeyError
\* and leaves the shared scope and every project scope as they were.
C1_CollisionLeavesScopes ==
    [][(/\ call'.op = "add_project_node"
        /\ CallKey(call') \in
              DOMAIN _shared_nodes \cup DOMAIN _project_nodes[call'.self])
       => /\ outcome'.status = "KeyError"
          /\ _shared_nodes' = _shared_nodes
          /\ _project_nodes' = _project_nodes]_vars

\* An add_project_node that failed on a key of the project scope, given
\* settings other than those of the node that holds the key.
C1_Witness ==
    /\ call.op = "add_project_node"
    /\ outcome.status = "KeyError"
    /\ CallKey(call) \in DOMAIN _project_nodes[call.self]
    /\ _project_nodes[call.self][CallKey(call)]._settings # call.args[2]

\* _node with the project scope looked at first.
NodeProjectFirst(shared, project, key) ==
    IF key \in DOMAIN project THEN project[key]
    ELSE IF key \in DOMAIN shared THEN shared[key]
    ELSE None

\* C2: no key is in the shared scope and in a project scope, and _node
\* returns the node it would return if it looked at the project scope first.
C2_ScopesShareNoKey ==
    \A self \in DOMAIN _project_nodes :
        /\ DOMAIN _shared_nodes \cap DOMAIN _project_nodes[self] = {}
        /\ \A key \in DOMAIN _shared_nodes \cup DOMAIN _project_nodes[self] :
              _node(_shared_nodes, _project_nodes[self], key[1], key[2])
              = NodeProjectFirst(_shared_nodes, _project_nodes[self], key)

\* An instance holds project nodes, and an add_project_node has just failed on
\* a key of the shared scope.
C2_Witness ==
    /\ call.op = "add_project_node"
    /\ outcome.status = "KeyError"
    /\ CallKey(call) \in DOMAIN _shared_nodes
    /\ DOMAIN _project_nodes[call.self] # {}

(***************************************************************************)
(* Properties of the resolver, checked under ResolveSpec.  They speak of   *)
(* the inheritance chain of the requested node, defined here from the two  *)
(* scopes and the inherits entries alone.                                  *)
(***************************************************************************)
Resolving(c) == c.op = "all_node_settings"
ArgType(c) == c.args[1]
ArgName(c) == c.args[2]
ArgRefNode(c) == c.args[3]
ArgRefGroup(c) == c.args[4]

\* The node stored under a key in one of two scopes, None if there is none.
Stored(shared, project, key) ==
    IF key \in DOMAIN shared THEN shared[key]
    ELSE IF key \in DOMAIN project THEN project[key]
    ELSE None

ParentName(node) ==
    IF INHERITS \in DOMAIN PresetNode_settings(node)
    THEN PresetNode_settings(node)[INHERITS] ELSE ""

\* The chain from the node called name: its nodes, leaf first, and how it
\* ends: at a "root", at a name that is "missing" from both scopes, or in a
\* "cycle".
RECURSIVE Chain(_, _, _, _, _)
Chain(shared, project, preset_type, name, seen) ==
    LET node == Stored(shared, project, <<preset_type, name>>)
    IN  IF node = None THEN [nodes |-> <<>>, end |-> "missing"]
        ELSE IF name \in seen THEN [nodes |-> <<>>, end |-> "cycle"]
        ELSE IF ParentName(node) = "" THEN [nodes |-> <<node>>, end |-> "root"]
        ELSE LET rest == Chain(shared, project, preset_type, ParentName(node),
                               seen \cup {name})
             IN  [nodes |-> <<node>> \o rest.nodes, end |-> rest.end]

\* The chain of the node the last call asked for.
CallChain == Chain(_shared_nodes, _project_nodes[call.self], ArgType(call),
                   ArgName(call), {})

\* The effective settings of a run of chain nodes, leaf first: every key set
\* by one of them, with the value of the node nearest to the leaf.
Effective(nodes) ==
    LET Own(i) == PresetNode_settings(nodes[i])
        Nearest(k) == CHOOSE i \in DOMAIN nodes :
                          /\ k \in DOMAIN Own(i)
                          /\ \A j \in 1..(i - 1) : k \notin DOMAIN Own(j)
    IN  [k \in UNION {DOMAIN Own(i) : i \in DOMAIN nodes} |-> Own(Nearest(k))[k]]

\* The places on the chain of the nodes the selectors of call c pick.
Boundaries(nodes, c) ==
    {i \in DOMAIN nodes :
        \/ (ArgRefGroup(c) # "" /\ nodes[i].metadata.group = ArgRefGroup(c))
        \/ nodes[i].metadata.name = ArgRefNode(c)}

Least(S) == CHOOSE i \in S : \A j \in S : i <= j
From(nodes, i) == SubSeq(nodes, i, Len(nodes))
Before(nodes, i) == SubSeq(nodes, 1, i - 1)

\* C3: with a reference name and no reference group, on a chain that reaches
\* its root and has a node of that name, the result carries the metadata of
\* the first such node R, the effective settings of R and its ancestors as
\* reference_subtree, and the effective settings of the nodes before R as
\* source_subtree.
C3_SplitAtReferenceName ==
    (Resolving(call) /\ ArgRefGroup(call) = "" /\ CallChain.end = "root"
        /\ Boundaries(CallChain.nodes, call) # {})
    => LET nodes == CallChain.nodes
           r == Least(Boundaries(nodes, call))
       IN  /\ outcome.status = "ok"
           /\ outcome.value.metadata = nodes[1].metadata
           /\ outcome.value.ref_metadata = nodes[r].metadata
           /\ outcome.value.reference_subtree = Effective(From(nodes, r))
           /\ outcome.value.source_subtree = Effective(Before(nodes, r))

\* A three-level chain split at its root, the two nodes before the root both
\* setting values.
C3_Witness ==
    /\ Resolving(call) /\ ArgRefGroup(call) = "" /\ CallChain.end = "root"
    /\ Len(CallChain.nodes) = 3
    /\ Boundaries(CallChain.nodes, call) = {3}
    /\ outcome.status = "ok"
    /\ "k1" \in DOMAIN PresetNode_settings(CallChain.nodes[2])
    /\ "k1" \in DOMAIN outcome.value.source_subtree
    /\ "k3" \in DOMAIN outcome.value.reference_subtree

NoSelector(c) == ArgRefNode(c) = "" /\ ArgRefGroup(c) = ""

\* C4: without a reference selector, on a chain that reaches its root,
\* source_subtree holds exactly the keys set along the chain, each with the
\* value of the node nearest to the requested node.
C4_ChildMasksAncestor ==
    (Resolving(call) /\ NoSelector(call) /\ CallChain.end = "root")
    => /\ outcome.status = "ok"
       /\ outcome.value.source_subtree = Effective(CallChain.nodes)

\* C5: without a reference selector, for a node whose own settings have no
\* inherits key, source_subtree is the node's own settings, reference_subtree
\* is empty and ref_metadata is None.
C5_RootNodeOwnSettings ==
    (Resolving(call) /\ NoSelector(call) /\ CallChain.end # "missing"
        /\ INHERITS \notin DOMAIN PresetNode_settings(CallChain.nodes[1]))
    => /\ outcome.status = "ok"
       /\ outcome.value.source_subtree = PresetNode_settings(CallChain.nodes[1])
       /\ outcome.value.reference_subtree = EmptyDict
       /\ outcome.value.ref_metadata = None

\* C6: a call with a reference name and a reference group raises ValueError,
\* returns nothing and leaves both scopes as they were, whatever node it asks
\* for.
C6_BothSelectorsRejected ==
    [][(Resolving(call') /\ ArgRefNode(call') # "" /\ ArgRefGroup(call') # "")
       => /\ outcome'.status = "ValueError"
          /\ outcome'.value = None
          /\ UNCHANGED registry_vars]_vars

\* A call with both selectors for a node that is in neither scope.
C6_Witness ==
    /\ Resolving(call) /\ ArgRefNode(call) # "" /\ ArgRefGroup(call) # ""
    /\ CallChain.end = "missing" /\ CallChain.nodes = <<>>
    /\ outcome.status = "ValueError"

\* C7: a result with a non-empty reference_subtree has ref_metadata set, and
\* no call raises the error for reference values without reference metadata.
C7_ReferenceHasMetadata ==
    Resolving(call)
    => /\ outcome.status # "ValueError: no reference metadata"
       /\ outcome.status = "ok"
          => (outcome.value.reference_subtree # EmptyDict
                 => outcome.value.ref_metadata # None)

\* A result with a non-empty reference_subtree.
C7_Witness ==
    /\ Resolving(call) /\ outcome.status = "ok"
    /\ outcome.value.reference_subtree # EmptyDict
    /\ outcome.value.source_subtree # EmptyDict

C9_MissingNodeNotFound ==
    (Resolving(call) /\ CallChain.end = "missing")
    => outcome.status = "KeyError" /\ outcome.value = None

\* C9 amended: such a call, unless it gives both a reference name and a
\* reference group, raises KeyError, returns nothing and leaves both scopes
\* as they were.
C9_MissingNodeNotFoundUnlessBoth ==
    [][(/\ Resolving(call')
        /\ ~(ArgRefNode(call') # "" /\ ArgRefGroup(call') # "")
        /\ Chain(_shared_nodes, _project_nodes[call'.self], ArgType(call'),
                 ArgName(call'), {}).end = "missing")
       => /\ outcome'.status = "KeyError"
          /\ outcome'.value = None
          /\ UNCHANGED registry_vars]_vars

\* A call that gathered the settings of two nodes before it came to a parent
\* that is in neither scope.
C9_Witness ==
    /\ Resolving(call) /\ ArgRefGroup(call) = ""
    /\ CallChain.end = "missing" /\ Len(CallChain.nodes) = 2
    /\ outcome.status = "KeyError"

(***************************************************************************)
(* Properties of the difference matrix, checked under MatrixSpec.  A       *)
(* traversal is current when no add_value has followed it.                 *)
(***************************************************************************)
Traversed == call.op = "table_cells"

\* The (row name, column metadata) pairs add_value has been called with, and
\* the last call made for a pair.
AddedPair(i) == <<added[i][1], added[i][2]>>
AddedPairs == {AddedPair(i) : i \in DOMAIN added}
LastAdded(p) ==
    added[CHOOSE i \in DOMAIN added :
              AddedPair(i) = p /\ \A j \in (i + 1)..Len(added) : AddedPair(j) # p]

\* The places in the traversal of the value cells: the cells below the header
\* rows and right of the row name column.
ValuePlaces == {i \in DOMAIN cells : cells[i].row >= _header_count
                                     /\ cells[i].column >= 1}

\* C10: a traversal yields one value cell for each pair add_value was called
\* with and no other value cell; the cell of a pair is at a place of its own
\* and carries the value and the classification of the last add_value made
\* for the pair.
C10_AddValueOverwrites ==
    Traversed
    => /\ Cardinality(ValuePlaces) = Cardinality(AddedPairs)
       /\ \A p \in AddedPairs :
             Cardinality({i \in ValuePlaces :
                 cells[i] = CellInfo(_rows[p[1]] + _header_count, _cols[p[2]] + 1,
                                     LastAdded(p)[3], LastAdded(p)[4])}) = 1
       /\ \A p, q \in AddedPairs :
             p # q => <<_rows[p[1]], _cols[p[2]]>> # <<_rows[q[1]], _cols[q[2]]>>

\* A traversal after add_value(k, m, x, DIFFERENCE) and then
\* add_value(k, m, y, OVERRIDE), with a second pair in the matrix.
C10_Witness ==
    /\ Traversed
    /\ Cardinality(AddedPairs) = 2
    /\ \E i, j \in DOMAIN added :
          /\ i < j
          /\ AddedPair(i) = AddedPair(j)
          /\ added[i][3] = "x" /\ added[i][4] = "DIFFERENCE"
          /\ added[j][3] = "y" /\ added[j][4] = "OVERRIDE"
          /\ LastAdded(AddedPair(i)) = added[j]

(***************************************************************************)
(* The numbering of the columns and of the rows.                           *)
(***************************************************************************)
\* The place of a group in the order of the table, and the first add_value
\* made for a column or for a row.
GroupRank == [system |-> 1, override |-> 2, project |-> 3, user |-> 4]
AddedColumns == {added[i][2] : i \in DOMAIN added}
AddedRows == {added[i][1] : i \in DOMAIN added}
FirstAddedColumn(c) == Least({i \in DOMAIN added : added[i][2] = c})
FirstAddedRow(r) == Least({i \in DOMAIN added : added[i][1] = r})

\* The traversal yielded a cell with this value at this place of the table.
HeaderCellAt(row, column, value) ==
    \E i \in DOMAIN cells :
        /\ cells[i].row = row
        /\ cells[i].column = column
        /\ cells[i].value = value

\* C11: a traversal gives the columns add_value was called with the distinct
\* indices 0..n-1; a column of an earlier group (system, override, project,
\* user) has a lower index than a column of a later group, columns of one
\* group are numbered in the order of their first insertion, and the header
\* cells of a column are yielded at its index plus one.
C11_ColumnsByGroupThenInsertion ==
    Traversed
    => /\ DOMAIN _cols = AddedColumns
       /\ {_cols[c] : c \in AddedColumns} = 0..(Cardinality(AddedColumns) - 1)
       /\ \A c, d \in AddedColumns :
             /\ c # d => _cols[c] # _cols[d]
             /\ GroupRank[c.group] < GroupRank[d.group] => _cols[c] < _cols[d]
             /\ (c.group = d.group /\ FirstAddedColumn(c) < FirstAddedColumn(d))
                => _cols[c] < _cols[d]
       /\ \A c \in AddedColumns :
             /\ HeaderCellAt(0, _cols[c] + 1, c.group)
             /\ HeaderCellAt(1, _cols[c] + 1, c.filename)
             /\ HeaderCellAt(2, _cols[c] + 1, c.name)

\* A traversal after columns were added in the order user, system, override,
\* project: they are numbered system, override, project, user.
C11_Witness ==
    /\ Traversed
    /\ Len(added) = 4
    /\ [i \in 1..4 |-> added[i][2].group] = <<"user", "system", "override", "project">>
    /\ [i \in 1..4 |-> _cols[added[i][2]]] = <<3, 0, 1, 2>>

\* A list of cells has a cell with this value at this place of the table.
CellIn(cs, row, column, value) ==
    \E i \in DOMAIN cs :
        /\ cs[i].row = row
        /\ cs[i].column = column
        /\ cs[i].value = value

\* The places in the traversal of the row name cells.
RowNamePlaces == {i \in DOMAIN cells : cells[i].row >= _header_count
                                       /\ cells[i].column = 0}

\* C12: after a traversal, whatever add_value calls and traversals came
\* before it, the rows add_value was called with are numbered 0..m-1 in the
\* ascending order of their names and the columns 0..n-1; every row name
\* cell is at (index of the row + 3, 0), every value cell is at (index of
\* the row + 3, index of the column + 1) of a pair add_value was called
\* with, and no cell is at a place computed from the index -1.
C12_TraversalReflectsContent ==
    Traversed
    => /\ DOMAIN _rows = AddedRows
       /\ {_rows[r] : r \in AddedRows} = 0..(Cardinality(AddedRows) - 1)
       /\ {_cols[c] : c \in AddedColumns} = 0..(Cardinality(AddedColumns) - 1)
       /\ \A r, t \in AddedRows :
             Position(RowNameOrder, r) < Position(RowNameOrder, t)
             => _rows[r] < _rows[t]
       /\ \A r \in AddedRows : CellIn(cells, _rows[r] + _header_count, 0, r)
       /\ \A i \in RowNamePlaces :
             /\ cells[i].value \in AddedRows
             /\ cells[i].row = _rows[cells[i].value] + _header_count
       /\ \A i \in ValuePlaces :
             \E p \in AddedPairs :
                 /\ cells[i].row = _rows[p[1]] + _header_count
                 /\ cells[i].column = _cols[p[2]] + 1
       /\ \A i \in DOMAIN cells :
             /\ cells[i].column >= 0
             /\ cells[i].row >= 0

\* A second traversal, made after an add_value that followed the first: the
\* first numbered row k 0, then row a was added, and the second traversal
\* numbers row a 0 and row k 1.
C12_Witness ==
    /\ Traversed
    /\ CellIn(previous_cells, _header_count, 0, "k")
    /\ ~CellIn(previous_cells, _header_count, 0, "a")
    /\ CellIn(cells, _header_count, 0, "a")
    /\ CellIn(cells, _header_count + 1, 0, "k")
    /\ _rows = [a |-> 0, k |-> 1]

(***************************************************************************)
(* The order of the yields of a traversal.                                 *)
(***************************************************************************)
\* The kinds of cell: a header cell of a column is in one of the three
\* header rows, a row name cell below them in column 0, a value cell below
\* them in a column of its own.
IsColumnHeaderCell(c) == c.row < _header_count /\ c.column >= 1
IsRowNameCell(c) == c.row >= _header_count /\ c.column = 0
IsValueCell(c) == c.row >= _header_count /\ c.column >= 1

\* C13 as stated: in a traversal every header cell of a column is yielded
\* before every row name cell, and every row name cell before every value
\* cell.
C13_HeadersThenRowsThenValues ==
    Traversed
    => \A i, j \in DOMAIN cells :
          /\ (IsColumnHeaderCell(cells[i]) /\ IsRowNameCell(cells[j])) => i < j
          /\ (IsRowNameCell(cells[i]) /\ IsValueCell(cells[j])) => i < j

\* The place of a cell in the order of the yields.
YieldRank(c) ==
    IF IsRowNameCell(c) THEN 2
    ELSE IF IsColumnHeaderCell(c) THEN 3
    ELSE IF IsValueCell(c) THEN 4
    ELSE 1

\* C13: a traversal yields the three header names of column 0, then one
\* name cell for each row, then the three header cells of each column, and
\* only then one cell for each stored value.
C13_RowsThenHeadersThenValues ==
    Traversed
    => /\ \A i, j \in DOMAIN cells :
             i < j => YieldRank(cells[i]) <= YieldRank(cells[j])
       /\ Cardinality({i \in DOMAIN cells : YieldRank(cells[i]) = 1}) = _header_count
       /\ Cardinality({i \in DOMAIN cells : IsRowNameCell(cells[i])})
          = Cardinality(AddedRows)
       /\ Cardinality({i \in DOMAIN cells : IsColumnHeaderCell(cells[i])})
          = _header_count * Cardinality(AddedColumns)
       /\ Cardinality({i \in DOMAIN cells : IsValueCell(cells[i])})
          = Cardinality(AddedPairs)

\* A traversal of a matrix of two rows and two columns.
C13_Witness ==
    /\ Traversed
    /\ Cardinality(AddedRows) = 2
    /\ Cardinality(AddedColumns) >= 2
    /\ \E i, j \in DOMAIN cells :
          i < j /\ IsRowNameCell(cells[i]) /\ IsColumnHeaderCell(cells[j])

(***************************************************************************)
(* Properties of a PresetNode, checked under NodeSpec.                     *)
(***************************************************************************)
\* The arguments of the last construction.
Constructing == call.op = "PresetNode"
GivenSettings == call.args[2]
GivenPath == call.args[3]

\* C14 as stated: the construction of a PresetNode returns if and only if
\* exactly one of settings and path is given, and raises ValueError when
\* neither is given and when both are given.
C14_ExactlyOneOfSettingsAndPath ==
    Constructing
    => outcome.status = IF (GivenSettings = None) # (GivenPath = None)
                        THEN "ok" ELSE "ValueError"

\* C14: the construction of a PresetNode raises ValueError, and makes no
\* node, if and only if neither settings nor a path is given; given one of
\* them or both it returns a node that holds the settings and the path it
\* was given.
C14_AtLeastOneOfSettingsAndPath ==
    Constructing
    => IF GivenSettings = None /\ GivenPath = None
       THEN outcome.status = "ValueError" /\ preset_node = None
       ELSE /\ outcome.status = "ok"
            /\ preset_node # None
            /\ preset_node._settings = GivenSettings
            /\ preset_node.path = GivenPath

\* A node constructed with settings and with a path.
C14_Witness ==
    /\ Constructing
    /\ GivenSettings # None
    /\ GivenPath # None
    /\ outcome.status = "ok"
    /\ preset_node # None

\* C15 as stated: the first settings access of a node constructed with a path
\* and no settings opens the file, and every other settings access, of that
\* node or of a node constructed with settings, opens no file and returns the
\* dictionary the node holds.
C15_ReadExactlyOnce ==
    [][call'.op = "settings"
       => IF preset_node._settings = None /\ reads = 0
          THEN reads' = 1
          ELSE /\ reads' = reads
               /\ preset_node._settings # None
               /\ outcome' = [status |-> "ok", value |-> preset_node._settings]]_vars

\* C15: a settings access of a node that holds no dictionary opens the file
\* once; if that gives a dictionary the node holds it from then on, and if
\* it fails or gives None the node still holds none.  A settings access of
\* a node that holds a dictionary, given at construction or read before,
\* opens no file, returns that dictionary and leaves the node as it is.
C15_ReadUntilCached ==
    [][call'.op = "settings"
       => IF preset_node._settings = None
          THEN /\ reads' = reads + 1
               /\ preset_node'._settings =
                     IF outcome'.status = "ok" THEN outcome'.value ELSE None
          ELSE /\ reads' = reads
               /\ preset_node' = preset_node
               /\ outcome' = [status |-> "ok", value |-> preset_node._settings]]_vars

\* A node constructed with a path only has its dictionary after two reads:
\* the first gave none, the second gave the dictionary.
C15_Witness ==
    /\ call.op = "settings"
    /\ reads = 2
    /\ outcome.status = "ok"
    /\ preset_node._settings # None
    /\ outcome.value = preset_node._settings

(***************************************************************************)
(* The population of the shared scope, checked under Spec.                 *)
(***************************************************************************)
\* A step that is a construction, and one that is not the first call made.
Construction == call'.op = "__init__"
LaterConstruction == call.op # "" /\ call'.op = "__init__"

\* C16 as stated: every construction leaves the shared scope non-empty, and
\* every construction but the first, whatever came before it, leaves the
\* shared scope as it was.
C16_PopulatedOnce ==
    [][/\ Construction => DOMAIN _shared_nodes' # {}
       /\ LaterConstruction => _shared_nodes' = _shared_nodes]_vars

\* C16: a construction that finds the shared scope non-empty returns and
\* leaves the shared scope as it was, whatever its arguments; a
\* construction that finds it empty populates it, and leaves it non-empty
\* if it returns.
C16_PopulatedIfEmpty ==
    [][Construction
       => IF DOMAIN _shared_nodes # {}
          THEN /\ _shared_nodes' = _shared_nodes
               /\ outcome'.status = "ok"
               /\ call'.self \in DOMAIN _project_nodes'
          ELSE outcome'.status = "ok" => DOMAIN _shared_nodes' # {}]_vars

\* A construction returned on a shared scope that an earlier construction
\* left non-empty, with arguments that would have populated it otherwise.
C16_Witness ==
    /\ call.op = "__init__"
    /\ outcome.status = "ok"
    /\ DOMAIN _shared_nodes # {}
    /\ \E platform \in Platforms :
          LET load == _load_shared_nodes(EmptyDict, call.args[1], call.args[2], platform)
          IN  load.error = "" /\ load.nodes # _shared_nodes

(***************************************************************************)
(* Properties of the override nodes of a project, checked under            *)
(* OverrideSpec.  The loop registers the positions of the descriptor list  *)
(* in order and ends at the first that raises, so the i-th registered      *)
(* override is that of position i - 1.                                     *)
(***************************************************************************)
Processed == call.op = "ThreeMFPresets"
Config == call.args[1][Len(call.args[1])].settings
Draws == call.args[2]
Diffs == Config[DIFFS_TO_SYSTEM].list
FilamentNames == Config["filament_settings_id"].list
FilamentCount == Len(FilamentNames)
Override(i) == _project_nodes[1][overrides[i]]

\* An override node of a preset type and a declared name, at place i.
IsOverrideOf(i, preset_type, name) ==
    /\ Override(i).metadata.preset_type = preset_type
    /\ Override(i).metadata.group = "override"
    /\ Override(i).metadata.override_inherits = name
    /\ Override(i).metadata.name = name \o "_" \o Draws[i]

\* C17 as stated: position 0 gives the process override, the last position
\* of the descriptor list the machine override, and the positions between
\* them the filament overrides in the order of the filaments.
C17_MachineAtFinalPosition ==
    Processed
    => \A i \in DOMAIN overrides :
          IF i = 1 THEN IsOverrideOf(i, "process", Config["print_settings_id"].str)
          ELSE IF i = Len(Diffs)
          THEN IsOverrideOf(i, "machine", Config["printer_settings_id"].str)
          ELSE /\ i - 1 \in DOMAIN FilamentNames
               /\ IsOverrideOf(i, "filament", FilamentNames[i - 1])

\* C17: position 0 gives the process override, positions 1..filament_count
\* the filament overrides in the order of the filaments, and position
\* filament_count + 1 the machine override, which is the last position when
\* the list has filament_count + 2 descriptors; no later position gives an
\* override, and a construction that returns has registered every position.
C17_MachineAfterFilaments ==
    Processed
    => /\ \A i \in DOMAIN overrides :
             IF i = 1 THEN IsOverrideOf(i, "process", Config["print_settings_id"].str)
             ELSE IF i = FilamentCount + 2
             THEN IsOverrideOf(i, "machine", Config["printer_settings_id"].str)
             ELSE /\ i - 1 \in DOMAIN FilamentNames
                  /\ IsOverrideOf(i, "filament", FilamentNames[i - 1])
       /\ Len(overrides) <= FilamentCount + 2
       /\ outcome.status = "ok" => Len(overrides) = Len(Diffs)
       /\ Len(Diffs) > FilamentCount + 2 => outcome.status # "ok"

\* A project of two filaments and four descriptors: process, filament A,
\* filament B, machine.
C17_Witness ==
    /\ Processed
    /\ outcome.status = "ok"
    /\ FilamentNames = <<"A", "B">>
    /\ Len(Diffs) = 4
    /\ [i \in 1..4 |-> Override(i).metadata.preset_type]
       = <<"process", "filament", "filament", "machine">>
    /\ [i \in 1..4 |-> Override(i).metadata.override_inherits] = <<"P", "A", "B", "M">>

\* The position the loop ended at, if it raised: that of the first override
\* it did not register.
RaisedAt == Len(overrides) + 1
IsFilamentPosition(i) == i - 1 \in DOMAIN FilamentNames /\ i \in DOMAIN Diffs

\* C18: the construction never raises KeyError at the position of a filament
\* whose generated name is that of an override registered before it: the
\* names generated for the filaments of one project differ.
C18_GeneratedNamesDistinct ==
    Processed
    => ~ /\ outcome.status = "KeyError"
         /\ IsFilamentPosition(RaisedAt)
         /\ \E i \in DOMAIN overrides :
               overrides[i] = PresetPath("filament",
                                         FilamentNames[RaisedAt - 1] \o "_" \o Draws[RaisedAt])

\* The names of a descriptor.
DescriptorKeys(diff) == SelectSeq(diff, LAMBDA t : t # ";")
\* The names of a descriptor that a filament override looks at.
CheckedKeys(diff) == SelectSeq(diff, LAMBDA t : t \notin {";", "filament_notes"})
\* The first key a filament override looks at is a list of another length
\* than the filament count.
WrongLength(i) ==
    /\ CheckedKeys(Diffs[i]) # <<>>
    /\ IsList(Config[CheckedKeys(Diffs[i])[1]])
    /\ Len(Config[CheckedKeys(Diffs[i])[1]].list) # FilamentCount

\* C19: a filament override whose descriptor names a key, other than
\* filament_notes, with a list of a length that differs from the filament
\* count is not registered: the construction raises IndexError there, and
\* the error names the node, the key, the filament count and the length of
\* the list.  A filament override that is registered has, for every such key
\* of its descriptor, the element of the list at the index of the filament.
C19_ListLengthChecked ==
    Processed
    => /\ \A i \in DOMAIN overrides :
             IsFilamentPosition(i)
             => \A j \in DOMAIN CheckedKeys(Diffs[i]) :
                   LET key == CheckedKeys(Diffs[i])[j]
                   IN  /\ IsList(Config[key])
                       /\ Len(Config[key].list) = FilamentCount
                       /\ Override(i)._settings[key] = JStr(Config[key].list[i - 1])
       /\ \A i \in DOMAIN Diffs :
             IsFilamentPosition(i) /\ WrongLength(i)
             => /\ i \notin DOMAIN overrides
                /\ Cardinality(DOMAIN _project_nodes[1]) < i
                /\ i = RaisedAt
                   => /\ outcome.status = "IndexError"
                      /\ outcome.value
                         = [node |-> FilamentNames[i - 1] \o "_" \o Draws[i],
                            key |-> CheckedKeys(Diffs[i])[1],
                            expected |-> FilamentCount,
                            actual |-> Len(Config[CheckedKeys(Diffs[i])[1]].list)]

\* The second filament of a project has a list that is one short: the
\* process override and the override of the first filament are registered,
\* that of the second is not.
C19_Witness ==
    /\ Processed
    /\ outcome.status = "IndexError"
    /\ outcome.value # None
    /\ outcome.value.actual = outcome.value.expected - 1
    /\ Len(overrides) = 2
    /\ DOMAIN _project_nodes[1] = Range(overrides)

\* The inherits_group entry of a position, or the declared name where the
\* entry is empty.
InheritsOf(i) ==
    IF Config[INHERITS_GROUP].list[i] = "" THEN Override(i).metadata.override_inherits
    ELSE Config[INHERITS_GROUP].list[i]

\* C20: the settings of every registered override have the generated name
\* under name, the inherits_group entry of the position, or the declared
\* name where that is empty, under inherits, and the from and version of
\* the project configuration, whatever the descriptor of the position names.
C20_BaseFieldsKept ==
    Processed
    => \A i \in DOMAIN overrides :
          /\ Override(i)._settings[NAME] = JStr(Override(i).metadata.name)
          /\ Override(i)._settings[INHERITS] = JStr(InheritsOf(i))
          /\ Override(i)._settings[FROM] = Config[FROM]
          /\ Override(i)._settings[VERSION] = Config[VERSION]

(***************************************************************************)
(* Properties of the loop of all_node_settings, checked under WalkSpec.    *)
(***************************************************************************)
\* C21: the loop of all_node_settings makes at most one pass at each node,
\* so a call returns or raises after at most as many passes as the two
\* scopes hold nodes.
C21_EachNodeVisitedOnce ==
    \A key \in DOMAIN visits : visits[key] <= 1

(***************************************************************************)
(* The split at a reference against the call without one, checked under    *)
(* ResolveSpec.                                                            *)
(***************************************************************************)
\* What all_node_settings gives for the node of the last call when it is
\* called without reference selector.
Unselected ==
    node_settings_rolled_up(_shared_nodes, _project_nodes[call.self], ArgType(call),
                            ArgName(call), "", "")

\* C22: when a call with a reference name or a reference group returns a
\* reference, reference_subtree | source_subtree of its result is the
\* source_subtree that the call without selector returns for the same node.
C22_SplitKeepsEffectiveSettings ==
    (/\ Resolving(call)
     /\ ArgRefNode(call) # "" \/ ArgRefGroup(call) # ""
     /\ outcome.status = "ok"
     /\ outcome.value.ref_metadata # None)
    => /\ Unselected.status = "ok"
       /\ Union(outcome.value.reference_subtree, outcome.value.source_subtree)
          = Unselected.value.source_subtree

(***************************************************************************)
(* The keys of the two scopes, checked under Spec.                         *)
(***************************************************************************)
\* Every node of a scope is stored under the preset type and the name of its
\* metadata.
KeyedByMetadata(nodes) ==
    \A key \in DOMAIN nodes :
        key = PresetPath(nodes[key].metadata.preset_type, nodes[key].metadata.name)

\* C23: every node of the shared scope and of the project scope of every
\* instance is stored under the key (preset type, name) of its metadata.
C23_KeyedByTypeAndName ==
    /\ KeyedByMetadata(_shared_nodes)
    /\ \A self \in DOMAIN _project_nodes : KeyedByMetadata(_project_nodes[self])

====
